---- MODULE Spec2Model ----
(***************************************************************************)
(* Review index of the semantic-search backend: the JSONL metadata log     *)
(* (storage.rs), the directory lock (storage.rs FileLock), the validator   *)
(* (models.rs) and the create_review / bulk_upload handlers (main.rs).     *)
(*                                                                         *)
(* The log file is a sequence of tokens.  The JSON text of one record is   *)
(* split into a first part P and a rest R, followed by the newline NL, so  *)
(* that a write that stops in the middle of a record is a state of the     *)
(* file.  Readers split the file at NL exactly as BufRead::lines does.     *)
(***************************************************************************)
EXTENDS Integers, Sequences, FiniteSets, TLC

(* ------------------------------ bounds --------------------------------- *)

\* number of requests served in one behaviour, each by its own handler;
\* any number of them may run in parallel
NumRequests == 2
\* longest payload of the set Payloads (array elements or NDJSON lines)
MaxBatch == 2
\* number of I/O faults the environment injects in one behaviour
MaxFaults == 1
\* width of usize in the model (the build's usize is 64 bits wide; the
\* model keeps the wrap-around at 2^UsizeBits)
UsizeBits == 8

\* longest list of indices given to get_reviews_by_indices
MaxIndices == 2
\* most records in the log when a ranking run starts
MaxCorpus == 2
\* most lines of a log file given to the readers of storage.rs
MaxLines == 4

Procs == 1..NumRequests
UsizeModulus == 2 ^ UsizeBits
UsizeMax == UsizeModulus - 1

(* ------------------------------ strings -------------------------------- *)

\* A string is described by what the validator reads of it: the number of
\* bytes of surrounding whitespace, and the code points and bytes of the
\* text that is left after trim(); and by what the scorer reads of it: its
\* characters. A string given by its lengths alone has no text field: it is
\* ws spaces followed by chars copies of one letter (see Chars).
Str(ws, chars, bytes) ==
  [ws |-> ws, chars |-> chars, bytes |-> bytes, text |-> <<>>]
Ascii(n) == Str(0, n, n)

IsWhitespace(c) == c = " "

\* the number of whitespace characters at the start of cs
RECURSIVE LeadingWs(_)
LeadingWs(cs) ==
  IF cs = <<>> \/ ~IsWhitespace(Head(cs)) THEN 0 ELSE 1 + LeadingWs(Tail(cs))

Reverse(cs) == [i \in 1..Len(cs) |-> cs[Len(cs) + 1 - i]]

\* the whitespace characters trim() removes from cs
TrimmedWs(cs) ==
  IF LeadingWs(cs) = Len(cs) THEN Len(cs)
  ELSE LeadingWs(cs) + LeadingWs(Reverse(cs))

\* the ASCII string of the characters cs
Text(cs) ==
  [ws |-> TrimmedWs(cs), chars |-> Len(cs) - TrimmedWs(cs),
   bytes |-> Len(cs) - TrimmedWs(cs), text |-> cs]

\* the characters of a string
Chars(s) ==
  IF s.text # <<>> THEN s.text
  ELSE [i \in 1..(s.ws + s.chars) |->
          IF i <= s.ws THEN " " ELSE IF s.bytes > s.chars THEN "é" ELSE "x"]

\* char::to_lowercase for the letters the inputs use
Lower(c) ==
  CASE c = "G" -> "g"
    [] c = "M" -> "m"
    [] c = "É" -> "é"
    [] OTHER -> c

\* str::to_lowercase
ToLowercase(cs) == [i \in 1..Len(cs) |-> Lower(cs[i])]

\* str::contains(&str)
Contains(haystack, needle) ==
  \E i \in 0..(Len(haystack) - Len(needle)) :
    SubSeq(haystack, i + 1, i + Len(needle)) = needle

\* the least element of a non-empty set of numbers
Least(S) == CHOOSE n \in S : \A m \in S : n <= m

\* where the words of cs start, and where the word that starts at i ends
WordStarts(cs) ==
  {i \in 1..Len(cs) :
     ~IsWhitespace(cs[i]) /\ (i = 1 \/ IsWhitespace(cs[i - 1]))}
WordEnd(cs, i) ==
  Least({j \in i..Len(cs) : j = Len(cs) \/ IsWhitespace(cs[j + 1])})

RECURSIVE WordsFrom(_, _)
WordsFrom(cs, starts) ==
  IF starts = {} THEN <<>>
  ELSE LET i == Least(starts)
       IN <<SubSeq(cs, i, WordEnd(cs, i))>> \o WordsFrom(cs, starts \ {i})

\* str::split_whitespace(): the maximal runs of non-whitespace characters
SplitWhitespace(cs) == WordsFrom(cs, WordStarts(cs))

\* str::trim().is_empty()
TrimIsEmpty(s) == s.chars = 0
\* String::len(): bytes of the untrimmed string
StrLen(s) == s.ws + s.bytes

(* ------------------------------ models.rs ------------------------------ *)

ReviewData(title, body, product_id, rating) ==
  [title |-> title, body |-> body, product_id |-> product_id, rating |-> rating]

NoData == ReviewData(Ascii(0), Ascii(0), Ascii(0), 0)

ValidationOk == [variant |-> "Ok", field |-> "", bound |-> 0]
ValidationErr(variant, field, bound) ==
  [variant |-> variant, field |-> field, bound |-> bound]

\* mutant: the rating is checked before the strings
ValidateRatingFirst(r) ==
  IF r.rating < 1 \/ r.rating > 5
    THEN ValidationErr("InvalidRating", "rating", 0)
  ELSE IF TrimIsEmpty(r.title) THEN ValidationErr("MissingField", "title", 0)
  ELSE IF TrimIsEmpty(r.body) THEN ValidationErr("MissingField", "body", 0)
  ELSE IF TrimIsEmpty(r.product_id)
    THEN ValidationErr("MissingField", "product_id", 0)
  ELSE IF StrLen(r.title) < 3 THEN ValidationErr("TooShort", "title", 3)
  ELSE IF StrLen(r.title) > 200 THEN ValidationErr("TooLong", "title", 200)
  ELSE IF StrLen(r.body) < 10 THEN ValidationErr("TooShort", "body", 10)
  ELSE IF StrLen(r.body) > 2000 THEN ValidationErr("TooLong", "body", 2000)
  ELSE IF StrLen(r.product_id) > 100
    THEN ValidationErr("TooLong", "product_id", 100)
  ELSE ValidationOk

\* ReviewData::validate
Validate(r) ==
  IF TrimIsEmpty(r.title) THEN ValidationErr("MissingField", "title", 0)
  ELSE IF TrimIsEmpty(r.body) THEN ValidationErr("MissingField", "body", 0)
  ELSE IF TrimIsEmpty(r.product_id)
    THEN ValidationErr("MissingField", "product_id", 0)
  ELSE IF StrLen(r.title) < 3 THEN ValidationErr("TooShort", "title", 3)
  ELSE IF StrLen(r.title) > 200 THEN ValidationErr("TooLong", "title", 200)
  ELSE IF StrLen(r.body) < 10 THEN ValidationErr("TooShort", "body", 10)
  ELSE IF StrLen(r.body) > 2000 THEN ValidationErr("TooLong", "body", 2000)
  ELSE IF StrLen(r.product_id) > 100
    THEN ValidationErr("TooLong", "product_id", 100)
  ELSE IF r.rating < 1 \/ r.rating > 5
    THEN ValidationErr("InvalidRating", "rating", 0)
  ELSE ValidationOk

IsValid(r) == Validate(r) = ValidationOk

\* ReviewMetadata; the id is the pair (request, position in the request),
\* which is unique as a v4 uuid is
NoMeta == [id |-> <<0, 0>>, data |-> NoData, vector_index |-> 0]

\* ReviewData::to_metadata (called on validated data only)
ToMetadata(r, vector_index, id) ==
  [id |-> id, data |-> r, vector_index |-> vector_index]

(* ------------------------- storage.rs: the log -------------------------- *)

Tok(t, rec) == [t |-> t, rec |-> rec]
NL == Tok("NL", NoMeta)

\* serde_json::to_string(review) followed by the newline of writeln!
JsonLine(rec) == <<Tok("P", rec), Tok("R", rec)>>

RECURSIVE LinesAcc(_, _, _)
LinesAcc(f, cur, acc) ==
  IF f = <<>> THEN (IF cur = <<>> THEN acc ELSE Append(acc, cur))
  ELSE IF Head(f).t = "NL" THEN LinesAcc(Tail(f), <<>>, Append(acc, cur))
  ELSE LinesAcc(Tail(f), Append(cur, Head(f)), acc)

\* BufRead::lines(): the file split at newlines; a last line without its
\* newline is a line, nothing follows a final newline
Lines(f) == LinesAcc(f, <<>>, <<>>)

\* line.trim().is_empty()
IsBlank(line) == line = <<>>

\* serde_json::from_str::<ReviewMetadata>(line) succeeds
Parses(line) ==
  /\ Len(line) = 2
  /\ line[1].t = "P"
  /\ line[2].t = "R"
  /\ line[1].rec = line[2].rec

ParsedRecord(line) == line[1].rec

RECURSIVE CountNonBlank(_)
CountNonBlank(ls) ==
  IF ls = <<>> THEN 0
  ELSE (IF IsBlank(Head(ls)) THEN 0 ELSE 1) + CountNonBlank(Tail(ls))

\* mutant: the pieces of the file between newlines are counted, the empty
\* piece after the last newline too
CountReviewsSplit(exists, f) == IF ~exists THEN 0 ELSE CountNonBlank(Lines(f)) + 1

\* JsonlStorage::count_reviews, for a file that can be read
CountReviews(exists, f) == IF ~exists THEN 0 ELSE CountNonBlank(Lines(f))

None == [tag |-> "none", rec |-> NoMeta]
Some(rec) == [tag |-> "some", rec |-> rec]
SerdeErr == [tag |-> "err", rec |-> NoMeta]

\* JsonlStorage::get_review_by_index: the line at the 0-based index;
\* a blank line or no line is None, a line that does not parse an error
GetReviewByIndex(exists, f, index) ==
  IF ~exists THEN None
  ELSE IF index >= Len(Lines(f)) THEN None
  ELSE IF IsBlank(Lines(f)[index + 1]) THEN None
  ELSE IF Parses(Lines(f)[index + 1]) THEN Some(ParsedRecord(Lines(f)[index + 1]))
  ELSE SerdeErr

\* JsonlStorage::read_all_reviews over the lines ls: blank lines are skipped,
\* the first line that does not parse ends the call with an error
RECURSIVE ReadLines(_, _)
ReadLines(ls, reviews) ==
  IF ls = <<>> THEN [ok |-> TRUE, reviews |-> reviews]
  ELSE IF IsBlank(Head(ls)) THEN ReadLines(Tail(ls), reviews)
  ELSE IF Parses(Head(ls))
    THEN ReadLines(Tail(ls), Append(reviews, ParsedRecord(Head(ls))))
  ELSE [ok |-> FALSE, reviews |-> <<>>]

\* mutant: the reader stops before the last line of the file
ReadAllButLast(exists, f) ==
  IF ~exists \/ Lines(f) = <<>> THEN [ok |-> TRUE, reviews |-> <<>>]
  ELSE ReadLines(SubSeq(Lines(f), 1, Len(Lines(f)) - 1), <<>>)

\* JsonlStorage::read_all_reviews, for a file that can be read
ReadAllReviews(exists, f) ==
  IF ~exists THEN [ok |-> TRUE, reviews |-> <<>>]
  ELSE ReadLines(Lines(f), <<>>)

\* the line at the 0-based index is there and is not blank
HasLine(f, index) == index < Len(Lines(f)) /\ ~IsBlank(Lines(f)[index + 1])

\* JsonlStorage::get_reviews_by_indices, for a file that can be read: one
\* entry for each requested index; a requested line that does not parse
\* ends the call with an error
GetReviewsByIndices(exists, f, indices) ==
  IF ~exists
  THEN [ok |-> TRUE, results |-> [j \in 1..Len(indices) |-> None]]
  ELSE IF \E j \in 1..Len(indices) :
            HasLine(f, indices[j]) /\ ~Parses(Lines(f)[indices[j] + 1])
  THEN [ok |-> FALSE, results |-> <<>>]
  ELSE [ok |-> TRUE,
        results |-> [j \in 1..Len(indices) |->
                       IF HasLine(f, indices[j])
                       THEN Some(ParsedRecord(Lines(f)[indices[j] + 1]))
                       ELSE None]]

\* the 1-based numbers of the non-blank lines of ls, from number n on, that
\* do not parse: the errors of validate_file
RECURSIVE ErrorLines(_, _)
ErrorLines(ls, n) ==
  IF ls = <<>> THEN <<>>
  ELSE (IF ~IsBlank(Head(ls)) /\ ~Parses(Head(ls)) THEN <<n>> ELSE <<>>)
         \o ErrorLines(Tail(ls), n + 1)

RECURSIVE CountValid(_)
CountValid(ls) ==
  IF ls = <<>> THEN 0
  ELSE (IF ~IsBlank(Head(ls)) /\ Parses(Head(ls)) THEN 1 ELSE 0)
         + CountValid(Tail(ls))

ValidationResult(is_valid, total_lines, valid_lines, errors) ==
  [is_valid |-> is_valid, total_lines |-> total_lines,
   valid_lines |-> valid_lines, errors |-> errors]

\* mutant: the file is split at newlines, and the empty piece after the
\* last newline is a line
ValidateFileSplit(exists, f) ==
  IF ~exists THEN ValidationResult(TRUE, 0, 0, <<>>)
  ELSE ValidationResult(ErrorLines(Lines(f), 1) = <<>>, Len(Lines(f)) + 1,
                        CountValid(Lines(f)), ErrorLines(Lines(f), 1))

\* JsonlStorage::validate_file, for a file that can be read
ValidateFile(exists, f) ==
  IF ~exists THEN ValidationResult(TRUE, 0, 0, <<>>)
  ELSE ValidationResult(ErrorLines(Lines(f), 1) = <<>>, Len(Lines(f)),
                        CountValid(Lines(f)), ErrorLines(Lines(f), 1))

(* --------------------------- models.rs: search -------------------------- *)

\* SearchRequest: the query string and the optional limit
NoLimit == [some |-> FALSE, value |-> 0]
SomeLimit(n) == [some |-> TRUE, value |-> n]
SearchRequest(query, limit) == [query |-> query, limit |-> limit]
NoSearch == SearchRequest(Ascii(0), NoLimit)

\* SearchRequest::validate
SearchValidate(r) ==
  IF TrimIsEmpty(r.query) THEN ValidationErr("MissingField", "query", 0)
  ELSE IF StrLen(r.query) > 500 THEN ValidationErr("TooLong", "query", 500)
  ELSE IF r.limit.some /\ (r.limit.value = 0 \/ r.limit.value > 100)
    THEN ValidationErr("InvalidValue", "limit", 0)
  ELSE ValidationOk

\* SearchRequest::get_limit
GetLimit(r) == IF r.limit.some THEN r.limit.value ELSE 10

(* --------------------------- main.rs: parsing --------------------------- *)

\* One element of a JSON array, or one line of an NDJSON string: a value that
\* deserializes to ReviewData ("ok"), one that does not ("bad"), or a line
\* of whitespace ("blank", in strings only).
Elem(tag, data) == [tag |-> tag, data |-> data]
BadElem == Elem("bad", NoData)
BlankLine == Elem("blank", NoData)

\* The JSON value of a bulk request: Value::Array, Value::Object,
\* Value::String, or any other value.
Payload(kind, elems) == [kind |-> kind, elems |-> elems]
NoPayload == Payload("", <<>>)

ParseOk(reviews) ==
  [ok |-> TRUE, reviews |-> reviews, error |-> "", variant |-> "",
   field |-> "", line |-> 0]
ParseErr(error, variant, field, line) ==
  [ok |-> FALSE, reviews |-> <<>>, error |-> error, variant |-> variant,
   field |-> field, line |-> line]

\* mutant: an element that does not deserialize is skipped
RECURSIVE ParseArraySkip(_, _)
ParseArraySkip(elems, parsed) ==
  IF elems = <<>> THEN ParseOk(parsed)
  ELSE IF Head(elems).tag = "ok"
    THEN ParseArraySkip(Tail(elems), Append(parsed, Head(elems).data))
  ELSE ParseArraySkip(Tail(elems), parsed)

\* the array branch: the first element that does not deserialize aborts
RECURSIVE ParseArray(_, _)
ParseArray(elems, parsed) ==
  IF elems = <<>> THEN ParseOk(parsed)
  ELSE IF Head(elems).tag = "ok"
    THEN ParseArray(Tail(elems), Append(parsed, Head(elems).data))
  ELSE ParseErr("serialization_error", "", "", 0)

\* mutant: the line number counts the parsed lines, not the lines read
RECURSIVE ParseJsonlParsedCount(_, _, _)
ParseJsonlParsedCount(lines, line_num, parsed) ==
  IF line_num >= Len(lines) THEN ParseOk(parsed)
  ELSE LET line == lines[line_num + 1] IN
    IF line.tag = "blank" THEN ParseJsonlParsedCount(lines, line_num + 1, parsed)
    ELSE IF line.tag = "ok"
      THEN ParseJsonlParsedCount(lines, line_num + 1, Append(parsed, line.data))
    ELSE ParseErr("validation_error", "InvalidValue", "line", Len(parsed) + 1)

\* the string branch: line_num counts every line, blank lines are skipped
RECURSIVE ParseJsonl(_, _, _)
ParseJsonl(lines, line_num, parsed) ==
  IF line_num >= Len(lines) THEN ParseOk(parsed)
  ELSE LET line == lines[line_num + 1] IN
    IF line.tag = "blank" THEN ParseJsonl(lines, line_num + 1, parsed)
    ELSE IF line.tag = "ok"
      THEN ParseJsonl(lines, line_num + 1, Append(parsed, line.data))
    ELSE ParseErr("validation_error", "InvalidValue", "line", line_num + 1)

\* parse_bulk_data
ParseBulkData(bulk_data) ==
  CASE bulk_data.kind = "array" -> ParseArray(bulk_data.elems, <<>>)
    [] bulk_data.kind = "object" ->
         IF bulk_data.elems[1].tag = "ok"
         THEN ParseOk(<<bulk_data.elems[1].data>>)
         ELSE ParseErr("serialization_error", "", "", 0)
    [] bulk_data.kind = "string" -> ParseJsonl(bulk_data.elems, 0, <<>>)
    [] OTHER -> ParseErr("validation_error", "InvalidValue", "bulk_data", 0)

\* mutant: the review is converted without being validated
ProcessSingleReviewUnchecked(review_data, vector_index, id) ==
  [ok |-> TRUE, metadata |-> ToMetadata(review_data, vector_index, id),
   error |-> ValidationOk]

\* process_single_review: validate, then to_metadata
ProcessSingleReview(review_data, vector_index, id) ==
  IF IsValid(review_data)
  THEN [ok |-> TRUE, metadata |-> ToMetadata(review_data, vector_index, id),
        error |-> ValidationOk]
  ELSE [ok |-> FALSE, metadata |-> NoMeta, error |-> Validate(review_data)]

BulkError(line_number, error, data) ==
  [line_number |-> line_number, error |-> error, data |-> data]

\* mutant: the empty check is missing
NeverEmpty(review_data_list) == FALSE

\* review_data_list.is_empty() (line 176)
IsEmptyList(review_data_list) == review_data_list = <<>>

\* mutant: the loop ends at the first review that fails validation
RECURSIVE ProcessLoopStop(_, _, _, _, _, _)
ProcessLoopStop(list, i, successful_reviews, failed_reviews, current_vector_index, req) ==
  IF i > Len(list)
  THEN [successful_reviews |-> successful_reviews,
        failed_reviews |-> failed_reviews,
        current_vector_index |-> current_vector_index]
  ELSE LET r == ProcessSingleReview(list[i], current_vector_index, <<req, i>>)
       IN IF r.ok
          THEN ProcessLoopStop(list, i + 1, Append(successful_reviews, r.metadata),
                               failed_reviews,
                               (current_vector_index + 1) % UsizeModulus, req)
          ELSE [successful_reviews |-> successful_reviews,
                failed_reviews |-> Append(failed_reviews,
                                          BulkError(i, r.error, list[i])),
                current_vector_index |-> current_vector_index]

\* the loop of bulk_upload over review_data_list.iter().enumerate();
\* i is the enumerate index plus one
RECURSIVE ProcessLoop(_, _, _, _, _, _)
ProcessLoop(list, i, successful_reviews, failed_reviews, current_vector_index, req) ==
  IF i > Len(list)
  THEN [successful_reviews |-> successful_reviews,
        failed_reviews |-> failed_reviews,
        current_vector_index |-> current_vector_index]
  ELSE LET r == ProcessSingleReview(list[i], current_vector_index, <<req, i>>)
       IN IF r.ok
          THEN ProcessLoop(list, i + 1, Append(successful_reviews, r.metadata),
                           failed_reviews,
                           (current_vector_index + 1) % UsizeModulus, req)
          ELSE ProcessLoop(list, i + 1, successful_reviews,
                           Append(failed_reviews,
                                  BulkError(i, r.error, list[i])),
                           current_vector_index, req)

\* the bytes append_reviews sends through its BufWriter
RECURSIVE Stream(_)
Stream(reviews) ==
  IF reviews = <<>> THEN <<>>
  ELSE JsonLine(Head(reviews)) \o <<NL>> \o Stream(Tail(reviews))

(* ------------------------------- state --------------------------------- *)

VARIABLES
  file,         \* reviews.jsonl: the tokens written so far
  file_exists,  \* reviews.jsonl exists
  lock,         \* the handlers holding the exclusive lock on .lock
  hs,           \* each handler's position and locals
  faults,       \* I/O faults injected so far
  acquired,     \* the requests that acquired the lock, in acquisition order
  resp          \* the response each request got

vars == <<file, file_exists, lock, hs, faults, acquired, resp>>

\* a handler before its request arrives; count_at_lock and began_after are
\* not locals of the code: they record the log count when the lock was
\* taken, and the writes that had succeeded when a search began
New ==
  [pc |-> "new", review_data |-> NoData, bulk_data |-> NoPayload,
   vector_index |-> 0, review_metadata |-> NoMeta, total |-> 0,
   successful_reviews |-> <<>>, failed_reviews |-> <<>>,
   current_vector_index |-> 0, pending |-> <<>>, count_at_lock |-> 0,
   search_request |-> NoSearch, began_after |-> {}]

Done == [New EXCEPT !.pc = "done"]

InFlight(p) == hs[p].pc \notin {"new", "done"}

\* A response.  status 0 with kind "" is no response yet; status 0 with a
\* kind stands for a handler that panicked and sent none.  review_data,
\* bulk_data, search_request, count_at_lock, locked, began_after, seen (the
\* file content a search read) and all_reviews (the corpus it ranked) are
\* not part of the wire response: they record the request and what its
\* handler saw.
NoResp ==
  [kind |-> "", status |-> 0, error |-> "", variant |-> "",
   field |-> "", line |-> 0, reason |-> "", review_id |-> <<0, 0>>,
   vector_index |-> 0, total_processed |-> 0, successful |-> 0,
   failed |-> <<>>, starting_vector_index |-> 0, ending_vector_index |-> 0,
   review_data |-> NoData, bulk_data |-> NoPayload, count_at_lock |-> 0,
   locked |-> FALSE, search_request |-> NoSearch, limit |-> 0,
   all_reviews |-> <<>>, seen |-> <<>>, began_after |-> {},
   results |-> <<>>, total_results |-> 0,
   index |-> 0, count |-> 0, got |-> None, got_many |-> <<>>]

\* what every response of handler state h carries
BaseResp(h, kind) ==
  [NoResp EXCEPT !.kind = kind, !.review_data = h.review_data,
                 !.bulk_data = h.bulk_data, !.count_at_lock = h.count_at_lock,
                 !.search_request = h.search_request,
                 !.began_after = h.began_after]

\* ErrorResponse::from(AppError) with the handler's status code
ErrorResp(h, kind, status, error, variant, field) ==
  [BaseResp(h, kind) EXCEPT !.status = status, !.error = error,
                            !.variant = variant, !.field = field]

\* the inputs requests are drawn from
GoodReview == ReviewData(Ascii(14), Ascii(71), Ascii(8), 5)
BadRatingReview == ReviewData(Ascii(21), Ascii(31), Ascii(8), 6)
Reviews == {GoodReview, BadRatingReview}

BSeq(S, n) == UNION {[1..k -> S] : k \in 0..n}

ArrayElems == {Elem("ok", r) : r \in Reviews} \cup {BadElem}
JsonlLines == ArrayElems \cup {BlankLine}

\* every bulk payload of at most MaxBatch elements or lines
Payloads ==
  {Payload("array", es) : es \in BSeq(ArrayElems, MaxBatch)}
    \cup {Payload("object", <<e>>) : e \in ArrayElems}
    \cup {Payload("string", ls) : ls \in BSeq(JsonlLines, MaxBatch)}
    \cup {Payload("other", <<>>)}

\* the bulk payloads of the runs in which every request may be a bulk upload
MixedBatch == <<Elem("ok", BadRatingReview), Elem("ok", GoodReview), Elem("ok", GoodReview)>>
FewPayloads ==
  {Payload("array", MixedBatch), Payload("string", <<Elem("ok", GoodReview)>>),
   Payload("array", <<Elem("ok", BadRatingReview)>>)}

Init ==
  /\ file = <<>>
  /\ file_exists = FALSE
  /\ lock = {}
  /\ hs = [p \in Procs |-> New]
  /\ faults = 0
  /\ acquired = <<>>
  /\ resp = [p \in Procs |-> NoResp]

CanFault == faults < MaxFaults

\* the handler returns r; its FileLock, if it holds one, is dropped
Return(p, r) ==
  /\ resp' = [resp EXCEPT ![p] = [r EXCEPT !.locked = (p \in lock)]]
  /\ hs' = [hs EXCEPT ![p] = Done]
  /\ lock' = lock \ {p}

(* --------------------------- storage.rs: lock --------------------------- *)

\* mutant: the lock call returns without waiting for the holder
LockExclusiveNoWait(p) == lock' = lock \cup {p}

\* file.lock_exclusive(): blocks until no other open file holds the lock
LockExclusive(p) ==
  /\ lock = {}
  /\ lock' = lock \cup {p}

\* FileLock::acquire called by handler p, which goes on at next_pc; the
\* open of .lock and the lock call can both fail
Acquire(p, kind, next_pc) ==
  LET h == hs[p] IN
  \/ /\ LockExclusive(p)
     /\ acquired' = Append(acquired, p)
     /\ hs' = [hs EXCEPT ![p] =
                 [h EXCEPT !.pc = next_pc,
                           !.count_at_lock = CountReviews(file_exists, file)]]
     /\ UNCHANGED <<file, file_exists, faults, resp>>
  \/ /\ CanFault
     /\ faults' = faults + 1
     /\ \E e \in {"file_operation_error", "concurrency_error"} :
          Return(p, ErrorResp(h, kind, 503, e, "", ""))
     /\ UNCHANGED <<file, file_exists, acquired>>

(* ------------------------ main.rs: create_review ------------------------ *)

\* lines 63-82: validate, ensure_directories
CreateStart(p, review_data) ==
  LET h == [New EXCEPT !.review_data = review_data]
      v == Validate(review_data)
  IN
  /\ hs[p].pc = "new"
  /\ \/ /\ v # ValidationOk
        /\ Return(p, ErrorResp(h, "create", 400, "validation_error",
                               v.variant, v.field))
        /\ UNCHANGED faults
     \/ /\ v = ValidationOk
        /\ hs' = [hs EXCEPT ![p] = [h EXCEPT !.pc = "c_count"]]
        /\ UNCHANGED <<lock, faults, resp>>
     \/ /\ v = ValidationOk
        /\ CanFault
        /\ faults' = faults + 1
        /\ Return(p, ErrorResp(h, "create", 500, "file_operation_error", "", ""))
  /\ UNCHANGED <<file, file_exists, acquired>>

\* lines 84-100: count_reviews, to_metadata
CreateCount(p) ==
  LET h == hs[p]
      vector_index == CountReviews(file_exists, file)
  IN
  /\ h.pc = "c_count"
  /\ \/ /\ hs' = [hs EXCEPT ![p] =
                    [h EXCEPT !.pc = "c_lock",
                              !.vector_index = vector_index,
                              !.review_metadata =
                                 ToMetadata(h.review_data, vector_index,
                                            <<p, 1>>)]]
        /\ UNCHANGED <<lock, faults, resp>>
     \/ /\ file_exists
        /\ CanFault
        /\ faults' = faults + 1
        /\ Return(p, ErrorResp(h, "create", 500, "file_operation_error", "", ""))
  /\ UNCHANGED <<file, file_exists, acquired>>

\* lines 102-109: FileLock::acquire
CreateLock(p) ==
  /\ hs[p].pc = "c_lock"
  /\ Acquire(p, "create", "c_append")

\* lines 111-115 with append_review: open for append, write the JSON text
CreateAppend(p) ==
  LET h == hs[p] IN
  /\ h.pc = "c_append"
  /\ \/ /\ file' = file \o JsonLine(h.review_metadata)
        /\ file_exists' = TRUE
        /\ hs' = [hs EXCEPT ![p] = [h EXCEPT !.pc = "c_newline"]]
        /\ UNCHANGED <<lock, faults, resp>>
     \/ /\ CanFault
        /\ faults' = faults + 1
        /\ \/ UNCHANGED <<file, file_exists>>
           \/ /\ \E n \in 0..1 :
                   file' = file \o SubSeq(JsonLine(h.review_metadata), 1, n)
              /\ file_exists' = TRUE
        /\ Return(p, ErrorResp(h, "create", 500, "file_operation_error", "", ""))
  /\ UNCHANGED acquired

\* the newline of writeln!, then lines 117-131: the success response
CreateNewline(p) ==
  LET h == hs[p] IN
  /\ h.pc = "c_newline"
  /\ \/ /\ file' = file \o <<NL>>
        /\ Return(p, [BaseResp(h, "create") EXCEPT
                        !.status = 200,
                        !.review_id = h.review_metadata.id,
                        !.vector_index = h.vector_index])
        /\ UNCHANGED faults
     \/ /\ CanFault
        /\ faults' = faults + 1
        /\ UNCHANGED file
        /\ Return(p, ErrorResp(h, "create", 500, "file_operation_error", "", ""))
  /\ UNCHANGED <<file_exists, acquired>>

(* ------------------------- main.rs: bulk_upload ------------------------- *)

\* lines 134-147: ensure_directories
BulkStart(p, bulk_data) ==
  LET h == [New EXCEPT !.bulk_data = bulk_data] IN
  /\ hs[p].pc = "new"
  /\ \/ /\ hs' = [hs EXCEPT ![p] = [h EXCEPT !.pc = "b_lock"]]
        /\ UNCHANGED <<lock, faults, resp>>
     \/ /\ CanFault
        /\ faults' = faults + 1
        /\ Return(p, ErrorResp(h, "bulk", 500, "file_operation_error", "", ""))
  /\ UNCHANGED <<file, file_exists, acquired>>

\* lines 149-156: FileLock::acquire
BulkLock(p) ==
  /\ hs[p].pc = "b_lock"
  /\ Acquire(p, "bulk", "b_count")

\* current_vector_index - 1 on usize (line 237): with overflow checks the
\* subtraction from 0 panics, without them it wraps
EndingVectorIndex(current_vector_index) ==
  IF current_vector_index >= 1
  THEN {[panic |-> FALSE, value |-> current_vector_index - 1]}
  ELSE {[panic |-> TRUE, value |-> 0], [panic |-> FALSE, value |-> UsizeMax]}

\* lines 223-238: the report of a bulk upload
BulkReport(h, ending) ==
  IF ending.panic THEN BaseResp(h, "bulk")
  ELSE [BaseResp(h, "bulk") EXCEPT
          !.status = 200,
          !.total_processed = h.total,
          !.successful = Len(h.successful_reviews),
          !.failed = h.failed_reviews,
          !.starting_vector_index = h.vector_index,
          !.ending_vector_index = ending.value]

BulkFinish(p, h) ==
  \E ending \in EndingVectorIndex(h.current_vector_index) :
    Return(p, BulkReport(h, ending))

\* lines 158-212: count_reviews, parse_bulk_data, the empty check and the
\* loop over the parsed reviews, up to the call of append_reviews
BulkCount(p) ==
  LET h == hs[p]
      starting_vector_index == CountReviews(file_exists, file)
      parsed == ParseBulkData(h.bulk_data)
      r == ProcessLoop(parsed.reviews, 1, <<>>, <<>>, starting_vector_index, p)
      h2 == [h EXCEPT !.vector_index = starting_vector_index,
                      !.total = Len(parsed.reviews),
                      !.successful_reviews = r.successful_reviews,
                      !.failed_reviews = r.failed_reviews,
                      !.current_vector_index = r.current_vector_index,
                      !.pending = Stream(r.successful_reviews)]
  IN
  /\ h.pc = "b_count"
  /\ \/ /\ file_exists
        /\ CanFault
        /\ faults' = faults + 1
        /\ Return(p, ErrorResp(h, "bulk", 500, "file_operation_error", "", ""))
     \/ /\ ~parsed.ok
        /\ Return(p, [ErrorResp(h, "bulk", 400, parsed.error, parsed.variant,
                                parsed.field) EXCEPT !.line = parsed.line])
        /\ UNCHANGED faults
     \/ /\ parsed.ok
        /\ IsEmptyList(parsed.reviews)
        /\ Return(p, [ErrorResp(h, "bulk", 400, "validation_error",
                                "InvalidValue", "reviews") EXCEPT
                        !.reason = "No valid reviews found in bulk data"])
        /\ UNCHANGED faults
     \/ /\ parsed.ok
        /\ ~IsEmptyList(parsed.reviews)
        /\ IF r.successful_reviews # <<>>
           THEN /\ hs' = [hs EXCEPT ![p] = [h2 EXCEPT !.pc = "b_append"]]
                /\ UNCHANGED <<lock, resp>>
           ELSE BulkFinish(p, h2)
        /\ UNCHANGED faults
  /\ UNCHANGED <<file, file_exists, acquired>>

\* append_reviews: the BufWriter hands the stream to the file in one or
\* more writes.  It buffers whole pieces (a JSON text, a newline), so a write
\* that succeeds ends after a JSON text or after a newline; a write that
\* fails ends the call with any part of the stream written
BulkAppend(p) ==
  LET h == hs[p] IN
  /\ h.pc = "b_append"
  /\ \/ /\ \E n \in 1..Len(h.pending) :
             /\ h.pending[n].t # "P"
             /\ file' = file \o SubSeq(h.pending, 1, n)
             /\ IF n = Len(h.pending)
                THEN BulkFinish(p, h)
                ELSE /\ hs' = [hs EXCEPT ![p] =
                          [h EXCEPT !.pending =
                              SubSeq(h.pending, n + 1, Len(h.pending))]]
                     /\ UNCHANGED <<lock, resp>>
        /\ file_exists' = TRUE
        /\ UNCHANGED faults
     \/ /\ CanFault
        /\ faults' = faults + 1
        /\ \/ /\ h.pending = Stream(h.successful_reviews)
              /\ UNCHANGED <<file, file_exists>>
           \/ /\ \E n \in 0..(Len(h.pending) - 1) :
                   file' = file \o SubSeq(h.pending, 1, n)
              /\ file_exists' = TRUE
        /\ Return(p, ErrorResp(h, "bulk", 500, "file_operation_error", "", ""))
  /\ UNCHANGED acquired

(* ------------------------ main.rs: the scorer --------------------------- *)

\* f32 values are counted in units of 2^-27, which holds every value the
\* scorer computes exactly: the smallest one, 0.1f32, has an ulp of 2^-27
F32(n) == n * 2 ^ 27
F32Half == 2 ^ 26
\* 0.8f32 = 13421773 * 2^-24 and 0.1f32 = 13421773 * 2^-27
F32EightTenths == 13421773 * 2 ^ 3
F32Tenth == 13421773 * 2 ^ 0

Abs(v) == IF v < 0 THEN 0 - v ELSE v

\* the ulp of a value of magnitude a: the power of two that leaves 24
\* bits of mantissa
RECURSIVE UlpFrom(_, _)
UlpFrom(a, step) ==
  IF a \div step < 2 ^ 24 THEN step ELSE UlpFrom(a, 2 * step)

\* round to nearest, ties to even, of q + r / d at step q
RoundHalfEven(q, r, d) ==
  IF 2 * r > d \/ (2 * r = d /\ q % 2 = 1) THEN q + 1 ELSE q

\* the f32 nearest to v
F32Round(v) ==
  LET a == Abs(v)
      step == UlpFrom(a, 1)
      m == RoundHalfEven(a \div step, a % step, step) * step
  IN IF v < 0 THEN 0 - m ELSE m

\* f32 addition
F32Add(x, y) == F32Round(x + y)

\* the shift that brings n / d into the 24 bits of a mantissa
RECURSIVE MantissaShift(_, _, _)
MantissaShift(n, d, k) ==
  IF (n * 2 ^ k) \div d >= 2 ^ 23 THEN k ELSE MantissaShift(n, d, k + 1)

\* f32 division n as f32 / d as f32 of small counts 0 <= n <= d, d > 0
F32Div(n, d) ==
  IF n = 0 THEN 0
  ELSE LET k == MantissaShift(n, d, 0)
           m == RoundHalfEven((n * 2 ^ k) \div d, (n * 2 ^ k) % d, d)
       IN m * 2 ^ (27 - k)

Min(a, b) == IF a < b THEN a ELSE b
Max(a, b) == IF a > b THEN a ELSE b

\* lines 398-408: the loop over the query words; acc is (score, word_matches)
RECURSIVE WordLoop(_, _, _, _)
WordLoop(query_words, combined_text, title_lower, acc) ==
  IF query_words = <<>> THEN acc
  ELSE LET word == Head(query_words)
           next == IF Contains(combined_text, word)
                   THEN [score |-> F32Add(acc.score,
                                          IF Contains(title_lower, word)
                                          THEN F32EightTenths ELSE F32Half),
                         word_matches |-> acc.word_matches + 1]
                   ELSE acc
       IN WordLoop(Tail(query_words), combined_text, title_lower, next)

\* mutant: a word found in the title weighs as much as one found in the body
CalculateTextSimilarityFlat(query_lower, query_words, review) ==
  LET title_lower == ToLowercase(Chars(review.data.title))
      body_lower == ToLowercase(Chars(review.data.body))
      combined_text == title_lower \o <<" ">> \o body_lower
      exact == IF Contains(combined_text, query_lower)
               THEN F32Add(0, F32(1)) ELSE 0
      words == WordLoop(query_words, combined_text, <<>>,
                        [score |-> exact, word_matches |-> 0])
      ratio == F32Div(words.word_matches, Len(query_words)) \div 2
      boost == (review.data.rating - 3) * F32Tenth
      score == F32Add(F32Add(words.score, ratio), boost)
  IN Max(Min(score, F32(1)), 0)

\* calculate_text_similarity
CalculateTextSimilarity(query_lower, query_words, review) ==
  LET title_lower == ToLowercase(Chars(review.data.title))
      body_lower == ToLowercase(Chars(review.data.body))
      combined_text == title_lower \o <<" ">> \o body_lower
      exact == IF Contains(combined_text, query_lower)
               THEN F32Add(0, F32(1)) ELSE 0
      words == WordLoop(query_words, combined_text, title_lower,
                        [score |-> exact, word_matches |-> 0])
      \* (word_matches as f32 / total_words) * 0.5: halving is exact
      ratio == F32Div(words.word_matches, Len(query_words)) \div 2
      \* (rating as f32 - 3.0) * 0.1: the products by -2..2 are exact
      boost == (review.data.rating - 3) * F32Tenth
      score == F32Add(F32Add(words.score, ratio), boost)
  IN Max(Min(score, F32(1)), 0)

\* SearchResult
SearchResult(review, similarity_score) ==
  [review |-> review, similarity_score |-> similarity_score]

\* slice::sort_by with the comparison b.1.partial_cmp(&a.1): a stable sort
\* by decreasing score, so a hit goes behind every hit of the sorted part
\* whose score is not less than its own
\* mutant: a hit goes before the hits of its own score
RECURSIVE SortedInsertBefore(_, _)
SortedInsertBefore(sorted, hit) ==
  IF sorted = <<>> THEN <<hit>>
  ELSE IF Head(sorted).similarity_score > hit.similarity_score
    THEN <<Head(sorted)>> \o SortedInsertBefore(Tail(sorted), hit)
  ELSE <<hit>> \o sorted

RECURSIVE SortedInsert(_, _)
SortedInsert(sorted, hit) ==
  IF sorted = <<>> THEN <<hit>>
  ELSE IF Head(sorted).similarity_score >= hit.similarity_score
    THEN <<Head(sorted)>> \o SortedInsert(Tail(sorted), hit)
  ELSE <<hit>> \o sorted

RECURSIVE SortByScore(_, _)
SortByScore(hits, sorted) ==
  IF hits = <<>> THEN sorted
  ELSE SortByScore(Tail(hits), SortedInsert(sorted, Head(hits)))

\* Iterator::take
Take(seq, n) == SubSeq(seq, 1, Min(n, Len(seq)))

\* mutant: a search leaves out as many hits as searches were answered
\* before it
PerformTextSearchFresh(query, reviews, limit) ==
  LET query_lower == ToLowercase(Chars(query))
      query_words == SplitWhitespace(query_lower)
      scored == [i \in 1..Len(reviews) |->
                   SearchResult(reviews[i],
                                CalculateTextSimilarity(query_lower, query_words,
                                                        reviews[i]))]
      scored_reviews == SelectSeq(scored, LAMBDA hit : hit.similarity_score > 0)
      answered == Cardinality({q \in Procs : resp[q].kind = "search"})
  IN IF query_words = <<>> THEN <<>>
     ELSE Take(SortByScore(scored_reviews, <<>>), Max(limit - answered, 0))

\* perform_text_search
PerformTextSearch(query, reviews, limit) ==
  LET query_lower == ToLowercase(Chars(query))
      query_words == SplitWhitespace(query_lower)
      scored == [i \in 1..Len(reviews) |->
                   SearchResult(reviews[i],
                                CalculateTextSimilarity(query_lower, query_words,
                                                          reviews[i]))]
      scored_reviews == SelectSeq(scored, LAMBDA hit : hit.similarity_score > 0)
  IN IF query_words = <<>> THEN <<>>
     ELSE Take(SortByScore(scored_reviews, <<>>), limit)

(* ----------------------- main.rs: search_reviews ------------------------ *)

\* the writes that have returned success
Succeeded == {q \in Procs : resp[q].kind \in {"create", "bulk"} /\ resp[q].status = 200}

\* mutant: the search waits until no writer holds the lock
SearchStartWhenFree(p, search_request) ==
  LET h == [New EXCEPT !.search_request = search_request,
                       !.began_after = Succeeded]
      v == SearchValidate(search_request)
  IN
  /\ hs[p].pc = "new"
  /\ lock = {}
  /\ \/ /\ v # ValidationOk
        /\ Return(p, ErrorResp(h, "search", 400, "validation_error",
                               v.variant, v.field))
        /\ UNCHANGED faults
     \/ /\ v = ValidationOk
        /\ hs' = [hs EXCEPT ![p] = [h EXCEPT !.pc = "s_read"]]
        /\ UNCHANGED <<lock, faults, resp>>
     \/ /\ v = ValidationOk
        /\ CanFault
        /\ faults' = faults + 1
        /\ Return(p, ErrorResp(h, "search", 500, "file_operation_error", "", ""))
  /\ UNCHANGED <<file, file_exists, acquired>>

\* lines 300-316: validate, ensure_directories
SearchStart(p, search_request) ==
  LET h == [New EXCEPT !.search_request = search_request,
                       !.began_after = Succeeded]
      v == SearchValidate(search_request)
  IN
  /\ hs[p].pc = "new"
  /\ \/ /\ v # ValidationOk
        /\ Return(p, ErrorResp(h, "search", 400, "validation_error",
                               v.variant, v.field))
        /\ UNCHANGED faults
     \/ /\ v = ValidationOk
        /\ hs' = [hs EXCEPT ![p] = [h EXCEPT !.pc = "s_read"]]
        /\ UNCHANGED <<lock, faults, resp>>
     \/ /\ v = ValidationOk
        /\ CanFault
        /\ faults' = faults + 1
        /\ Return(p, ErrorResp(h, "search", 500, "file_operation_error", "", ""))
  /\ UNCHANGED <<file, file_exists, acquired>>

\* lines 318-348: read_all_reviews without the lock, then the response.
\* The file only grows, so what the reader has read when it reaches the end
\* of the file is the content of the file at that instant.
SearchRead(p) ==
  LET h == hs[p]
      all_reviews == ReadAllReviews(file_exists, file)
      search_results ==
        PerformTextSearch(h.search_request.query, all_reviews.reviews,
                            GetLimit(h.search_request))
  IN
  /\ h.pc = "s_read"
  /\ \/ /\ all_reviews.ok
        /\ Return(p, [BaseResp(h, "search") EXCEPT
                        !.status = 200,
                        !.limit = GetLimit(h.search_request),
                        !.all_reviews = all_reviews.reviews,
                        !.seen = file,
                        !.results = search_results,
                        !.total_results = Len(search_results)])
        /\ UNCHANGED faults
     \/ /\ ~all_reviews.ok
        /\ Return(p, [ErrorResp(h, "search", 500, "serialization_error", "", "")
                        EXCEPT !.seen = file])
        /\ UNCHANGED faults
     \/ /\ file_exists
        /\ CanFault
        /\ faults' = faults + 1
        /\ Return(p, ErrorResp(h, "search", 500, "file_operation_error", "", ""))
  /\ UNCHANGED <<file, file_exists, acquired>>

(* --------------------------- the specifications ------------------------- *)

\* any interleaving of single and bulk inserts
Next ==
  \E p \in Procs :
    \/ \E review_data \in Reviews : CreateStart(p, review_data)
    \/ CreateCount(p)
    \/ CreateLock(p)
    \/ CreateAppend(p)
    \/ CreateNewline(p)
    \/ \E bulk_data \in FewPayloads : BulkStart(p, bulk_data)
    \/ BulkLock(p)
    \/ BulkCount(p)
    \/ BulkAppend(p)

Spec == Init /\ [][Next]_vars

\* one bulk upload with any payload (request 1), in any interleaving with
\* single inserts (the other requests)
NextBulk ==
  \E p \in Procs :
    \/ /\ p # 1
       /\ \E review_data \in Reviews : CreateStart(p, review_data)
    \/ CreateCount(p)
    \/ CreateLock(p)
    \/ CreateAppend(p)
    \/ CreateNewline(p)
    \/ /\ p = 1
       /\ \E bulk_data \in Payloads : BulkStart(p, bulk_data)
    \/ BulkLock(p)
    \/ BulkCount(p)
    \/ BulkAppend(p)

SpecBulk == Init /\ [][NextBulk]_vars

\* single inserts one after another: a request arrives when no other is
\* in flight
NextSeq ==
  \E p \in Procs :
    \/ /\ \A q \in Procs : ~InFlight(q)
       /\ \E review_data \in Reviews : CreateStart(p, review_data)
    \/ CreateCount(p)
    \/ CreateLock(p)
    \/ CreateAppend(p)
    \/ CreateNewline(p)

SpecSeq == Init /\ [][NextSeq]_vars

\* any interleaving of single and bulk inserts in which no I/O call fails:
\* the environment has no fault left to inject
InitNoFault ==
  /\ file = <<>>
  /\ file_exists = FALSE
  /\ lock = {}
  /\ hs = [p \in Procs |-> New]
  /\ faults = MaxFaults
  /\ acquired = <<>>
  /\ resp = [p \in Procs |-> NoResp]

SpecNoFault == InitNoFault /\ [][Next]_vars

\* the strings around the limits lo and hi of a field: of 0, lo - 1, lo, hi
\* and hi + 1 code points, of one or two bytes each, bare or with one byte
\* of whitespace around them
StrsAround(lo, hi) ==
  {Str(ws, chars, chars * width) :
     ws \in {0, 1}, chars \in {0, lo - 1, lo, hi, hi + 1}, width \in {1, 2}}

ValidateInputs ==
  {ReviewData(title, body, product_id, rating) :
     title \in StrsAround(3, 200), body \in StrsAround(10, 2000),
     product_id \in StrsAround(1, 100), rating \in {0, 1, 5, 6}}

\* ReviewData::validate called on one input: request 1 holds the input
InitValidate ==
  /\ file = <<>>
  /\ file_exists = FALSE
  /\ lock = {}
  /\ \E review_data \in ValidateInputs :
       hs = [p \in Procs |->
               IF p = 1 THEN [New EXCEPT !.review_data = review_data] ELSE New]
  /\ faults = 0
  /\ acquired = <<>>
  /\ resp = [p \in Procs |-> NoResp]

\* the call review_data.validate(): the result is kept in variant and field
ValidateCall(p) ==
  LET h == hs[p]
      v == Validate(h.review_data)
  IN
  /\ p = 1
  /\ h.pc = "new"
  /\ Return(p, ErrorResp(h, "validate", 0, "", v.variant, v.field))
  /\ UNCHANGED <<file, file_exists, faults, acquired>>

NextValidate == \E p \in Procs : ValidateCall(p)

SpecValidate == InitValidate /\ [][NextValidate]_vars

\* search requests at the limits of SearchRequest::validate: queries of 0, 1,
\* 500 and 501 code points, limits absent and around 1 and 100
SearchInputs ==
  {SearchRequest(query, limit) :
     query \in StrsAround(1, 500),
     limit \in {NoLimit} \cup {SomeLimit(n) : n \in {0, 1, 10, 100, 101}}}

\* searches with any request of SearchInputs (request 1)
NextSearch ==
  \E p \in Procs :
    \/ /\ p = 1
       /\ \E search_request \in SearchInputs : SearchStart(p, search_request)
    \/ SearchRead(p)

SpecSearch == Init /\ [][NextSearch]_vars

\* the texts of the ranking runs
TitleGpsMap == Text(<<"G", "p", "s", " ", "m", "a", "p">>)
TitleMap == Text(<<"M", "a", "p">>)
TitleMug == Text(<<"m", "u", "g">>)
BodyGpsMap == Text(<<"h", "a", "s", " ", "g", "p", "s", " ", "m", "a", "p">>)
BodyMaps == Text(<<"m", "a", "p", "s", " ", "g", "a", "l", "o", "r", "e">>)
BodyMug == Text(<<"a", " ", "f", "i", "n", "e", " ", "m", "u", "g", ".">>)

\* the reviews of the ranking runs: the query in the title, the query in
\* the body only, one word of it in the title, one word of it in the body,
\* and no word of it, with low and high ratings
RankReviews ==
  {ReviewData(TitleGpsMap, BodyMug, Ascii(8), 1),
   ReviewData(TitleGpsMap, BodyMug, Ascii(8), 5),
   ReviewData(TitleMug, BodyGpsMap, Ascii(8), 1),
   ReviewData(TitleMug, BodyGpsMap, Ascii(8), 5),
   ReviewData(TitleMap, BodyMug, Ascii(8), 2),
   ReviewData(TitleMug, BodyMaps, Ascii(8), 5),
   ReviewData(TitleMug, BodyMug, Ascii(8), 1),
   ReviewData(TitleMug, BodyMug, Ascii(8), 3),
   ReviewData(TitleMug, BodyMug, Ascii(8), 5)}

\* the queries of the ranking runs: "gps map", "MAP" and " gps"
RankQueries ==
  {Text(<<"g", "p", "s", " ", "m", "a", "p">>), Text(<<"M", "a", "p">>),
   Text(<<" ", "g", "p", "s">>)}

RankRequests ==
  {SearchRequest(query, limit) :
     query \in RankQueries, limit \in {NoLimit, SomeLimit(1)}}

\* the records of earlier requests (request 0) that hold the reviews of
\* corpus in this order
Corpus(corpus) ==
  [i \in 1..Len(corpus) |-> ToMetadata(corpus[i], i - 1, <<0, i>>)]

\* a log of at most MaxCorpus records left by earlier requests
InitRank ==
  /\ \E corpus \in BSeq(RankReviews, MaxCorpus) :
       /\ file = Stream(Corpus(corpus))
       /\ file_exists = (corpus # <<>>)
  /\ lock = {}
  /\ hs = [p \in Procs |-> New]
  /\ faults = 0
  /\ acquired = <<>>
  /\ resp = [p \in Procs |-> NoResp]

\* searches of that log
NextRank ==
  \E p \in Procs :
    \/ /\ p = 1
       /\ \E search_request \in RankRequests : SearchStart(p, search_request)
    \/ SearchRead(p)

SpecRank == InitRank /\ [][NextRank]_vars

\* the reviews of the runs with two searches: the query in the title, in
\* the body, and one word of it in the body
TwiceReviews ==
  {ReviewData(TitleGpsMap, BodyMug, Ascii(8), 1),
   ReviewData(TitleMug, BodyGpsMap, Ascii(8), 5),
   ReviewData(TitleMug, BodyMaps, Ascii(8), 5)}

InitTwice ==
  /\ \E corpus \in BSeq(TwiceReviews, MaxCorpus) :
       /\ file = Stream(Corpus(corpus))
       /\ file_exists = (corpus # <<>>)
  /\ lock = {}
  /\ hs = [p \in Procs |-> New]
  /\ faults = 0
  /\ acquired = <<>>
  /\ resp = [p \in Procs |-> NoResp]

\* two searches of one log, one after the other or interleaved
NextTwice ==
  \E p \in Procs :
    \/ /\ p <= 2
       /\ \E search_request \in RankRequests : SearchStart(p, search_request)
    \/ SearchRead(p)

SpecTwice == InitTwice /\ [][NextTwice]_vars

\* the log file of the lines kinds, each "record" or "blank": the records
\* carry the positions 0, 1, ... in file order, as count_reviews gave them
\* when they were appended; n records come before kinds
RECURSIVE LogFile(_, _)
LogFile(kinds, n) ==
  IF kinds = <<>> THEN <<>>
  ELSE IF Head(kinds) = "blank" THEN <<NL>> \o LogFile(Tail(kinds), n)
  ELSE JsonLine(ToMetadata(GoodReview, n, <<0, n + 1>>)) \o <<NL>>
         \o LogFile(Tail(kinds), n + 1)

\* a log file of at most MaxLines lines, blank lines among them
InitStore ==
  /\ \E kinds \in BSeq({"record", "blank"}, MaxLines) :
       /\ file = LogFile(kinds, 0)
       /\ file_exists = TRUE
  /\ lock = {}
  /\ hs = [p \in Procs |-> New]
  /\ faults = 0
  /\ acquired = <<>>
  /\ resp = [p \in Procs |-> NoResp]

\* the calls count_reviews(), get_review_by_index(index), read_all_reviews()
\* and get_reviews_by_indices(&[index]) on that file (request 1)
StoreCall(p, index) ==
  LET h == hs[p] IN
  /\ p = 1
  /\ h.pc = "new"
  /\ Return(p, [BaseResp(h, "store") EXCEPT
                  !.index = index,
                  !.count = CountReviews(file_exists, file),
                  !.got = GetReviewByIndex(file_exists, file, index),
                  !.all_reviews = ReadAllReviews(file_exists, file).reviews,
                  !.got_many =
                    GetReviewsByIndices(file_exists, file, <<index>>).results])
  /\ UNCHANGED <<file, file_exists, faults, acquired>>

NextStore == \E p \in Procs : \E index \in 0..MaxLines : StoreCall(p, index)

SpecStore == InitStore /\ [][NextStore]_vars

\* the search requests: a query of 5 characters with and without a limit,
\* and a query of whitespace
SearchRequests ==
  {SearchRequest(Ascii(5), NoLimit), SearchRequest(Ascii(5), SomeLimit(1)),
   SearchRequest(Str(2, 0, 0), NoLimit)}

\* searches (request 1) in any interleaving with single and bulk inserts
\* (the other requests)
NextRead ==
  \E p \in Procs :
    \/ /\ p = 1
       /\ \E search_request \in SearchRequests : SearchStart(p, search_request)
    \/ SearchRead(p)
    \/ /\ p # 1
       /\ \E review_data \in Reviews : CreateStart(p, review_data)
    \/ CreateCount(p)
    \/ CreateLock(p)
    \/ CreateAppend(p)
    \/ CreateNewline(p)
    \/ /\ p # 1
       /\ \E bulk_data \in FewPayloads : BulkStart(p, bulk_data)
    \/ BulkLock(p)
    \/ BulkCount(p)
    \/ BulkAppend(p)

SpecRead == Init /\ [][NextRead]_vars

\* any interleaving of single and bulk inserts in which a handler that
\* holds the lock goes on running: its blocking file calls return and the
\* runtime keeps polling its task
Critical(p) == CreateAppend(p) \/ CreateNewline(p) \/ BulkCount(p) \/ BulkAppend(p)

SpecLive == Init /\ [][Next]_vars /\ \A p \in Procs : WF_vars(Critical(p))

\* a step of handler p after its request has arrived
Step(p) ==
  \/ CreateCount(p)
  \/ CreateLock(p)
  \/ CreateAppend(p)
  \/ CreateNewline(p)
  \/ BulkLock(p)
  \/ BulkCount(p)
  \/ BulkAppend(p)

\* any interleaving of single and bulk inserts in which every handler goes
\* on running, and a handler that calls lock_exclusive and finds the lock
\* free again and again gets it in the end
SpecFair ==
  /\ Init
  /\ [][Next]_vars
  /\ \A p \in Procs : WF_vars(Step(p))
  /\ \A p \in Procs : SF_vars(CreateLock(p) \/ BulkLock(p))

(* ------------------------------ properties ----------------------------- *)

Returned(p) == resp[p].kind # ""

\* the P and R tokens of the file that handler p wrote
TokensOf(p) == {i \in 1..Len(file) : file[i].t # "NL" /\ file[i].rec.id[1] = p}

\* the records of the lines of the log that parse, by 0-based line number
LineRecord(i) == ParsedRecord(Lines(file)[i + 1])
LineParses(i) == i < Len(Lines(file)) /\ Parses(Lines(file)[i + 1])

\* C1: in every reachable state, every record of the log carries the
\* vector_index that is its 0-based line position (so no two records share
\* one and there are no gaps).
C1_IndexIsLinePosition ==
  \A i \in 0..(Len(Lines(file)) - 1) :
    LineParses(i) => LineRecord(i).vector_index = i

\* C2: after N successful single inserts, one after another on an empty
\* store, count() is N, get(i) is a record with vector_index i for every
\* i < N, and the k-th insert reported vector_index k-1.
C2_SequentialInserts ==
  LET inserted == {p \in Procs : resp[p].status = 200}
      N == Cardinality(inserted)
  IN
  (/\ \A p \in Procs : ~InFlight(p)
   /\ \A p \in Procs : Returned(p) => resp[p].status \in {200, 400})
  => /\ CountReviews(file_exists, file) = N
     /\ \A i \in 0..(N - 1) :
          /\ GetReviewByIndex(file_exists, file, i).tag = "some"
          /\ GetReviewByIndex(file_exists, file, i).rec.vector_index = i
     /\ GetReviewByIndex(file_exists, file, N) = None
     /\ Len(acquired) = N
     /\ \A k \in 1..N :
          /\ resp[acquired[k]].vector_index = k - 1
          /\ GetReviewByIndex(file_exists, file, k - 1).rec.id = resp[acquired[k]].review_id

\* every request was a single insert, and every one succeeded
C2_Witness ==
  /\ NumRequests >= 2
  /\ \A p \in Procs : resp[p].kind = "create" /\ resp[p].status = 200
  /\ CountReviews(file_exists, file) = NumRequests

(* the reviews a bulk payload parses to, and those that pass validation *)
BulkDataOf(p) == IF Returned(p) THEN resp[p].bulk_data ELSE hs[p].bulk_data
ParsedList(p) == ParseBulkData(BulkDataOf(p)).reviews

\* the 1-based positions of list, from i on, whose review passes (want =
\* TRUE) or fails (want = FALSE) validation
RECURSIVE Positions(_, _, _)
Positions(list, i, want) ==
  IF i > Len(list) THEN <<>>
  ELSE (IF IsValid(list[i]) = want THEN <<i>> ELSE <<>>) \o Positions(list, i + 1, want)

Reported(p) == resp[p].kind = "bulk" /\ resp[p].status = 200
IoFailure(p) == resp[p].status \in {500, 503}

\* C3: for every bulk insert that returns a report, with k items passing
\* validation and m failing, ending_vector_index - starting_vector_index + 1
\* is k, starting_vector_index is the log count when the operation began,
\* and failed[] has m entries.
C3_ReportArithmetic ==
  \A p \in Procs :
    Reported(p) =>
      LET k == Len(Positions(ParsedList(p), 1, TRUE))
          m == Len(Positions(ParsedList(p), 1, FALSE))
      IN /\ resp[p].ending_vector_index - resp[p].starting_vector_index + 1 = k
         /\ resp[p].starting_vector_index = resp[p].count_at_lock
         /\ Len(resp[p].failed) = m

\* C4: in a bulk insert on a store with count = base, the j-th item that
\* passes validation is given vector_index base + j and is line base + j of
\* the log.
C4_BulkPositions ==
  \A p \in Procs :
    Reported(p) =>
      LET base == resp[p].count_at_lock
          ok == Positions(ParsedList(p), 1, TRUE)
      IN \A j \in 0..(Len(ok) - 1) :
           /\ LineParses(base + j)
           /\ LineRecord(base + j).id = <<p, ok[j + 1]>>
           /\ LineRecord(base + j).data = ParsedList(p)[ok[j + 1]]
           /\ LineRecord(base + j).vector_index = base + j

\* C5: a single insert that is rejected leaves the log unchanged: nothing
\* of its record is in the log.
C5_RejectedInsertWritesNothing ==
  \A p \in Procs :
    (resp[p].kind = "create" /\ resp[p].status # 200) => TokensOf(p) = {}

\* C6: a per-item validation failure does not abort the batch: every parsed
\* item is processed, total_processed is the number of parsed items and is
\* successful + failed.length, and the failed entries are the failing items
\* in submission order, the item at 0-based index i with line_number i + 1.
C6_FailuresDoNotAbort ==
  \A p \in Procs :
    LET list == ParsedList(p)
        bad == Positions(list, 1, FALSE)
    IN
    /\ (resp[p].kind = "bulk" /\ ParseBulkData(BulkDataOf(p)).ok /\ list # <<>>)
         => resp[p].status # 400
    /\ Reported(p) =>
         /\ resp[p].total_processed = Len(list)
         /\ resp[p].total_processed = resp[p].successful + Len(resp[p].failed)
         /\ Len(resp[p].failed) = Len(bad)
         /\ \A n \in 1..Len(bad) :
              /\ resp[p].failed[n].line_number = bad[n]
              /\ resp[p].failed[n].data = list[bad[n]]
              /\ resp[p].failed[n].error = Validate(list[bad[n]])

\* a report with an item that passed after one that failed
C6_Witness ==
  \E p \in Procs :
    /\ Reported(p)
    /\ resp[p].successful >= 1
    /\ Len(resp[p].failed) >= 1
    /\ resp[p].failed[1].line_number = 1
    /\ TokensOf(p) # {}

HasBadElement(bulk_data) ==
  /\ bulk_data.kind = "array"
  /\ \E i \in 1..Len(bulk_data.elems) : bulk_data.elems[i].tag = "bad"

\* C7: when an element of a JSON array payload does not parse as a
\* ReviewInput, the call fails with the Serialization error kind and no
\* record of the payload is appended.
C7_ArrayParseFailure ==
  \A p \in Procs :
    HasBadElement(BulkDataOf(p)) =>
      /\ TokensOf(p) = {}
      /\ (Returned(p) /\ ~IoFailure(p)) =>
           /\ resp[p].status = 400
           /\ resp[p].error = "serialization_error"

\* a rejected array whose first element is a valid review
C7_Witness ==
  \E p \in Procs :
    /\ Returned(p)
    /\ HasBadElement(resp[p].bulk_data)
    /\ resp[p].bulk_data.elems[1] = Elem("ok", GoodReview)
    /\ resp[p].error = "serialization_error"

IsEmptyPayload(bulk_data) ==
  \/ bulk_data.kind = "array" /\ bulk_data.elems = <<>>
  \/ /\ bulk_data.kind = "string"
     /\ \A i \in 1..Len(bulk_data.elems) : bulk_data.elems[i].tag = "blank"

\* C8: a bulk insert whose payload parses to an empty list is rejected with
\* a Validation error "No valid reviews found", and nothing is appended.
C8_EmptyBatchRejected ==
  \A p \in Procs :
    IsEmptyPayload(BulkDataOf(p)) =>
      /\ TokensOf(p) = {}
      /\ (Returned(p) /\ ~IoFailure(p)) =>
           /\ resp[p].status = 400
           /\ resp[p].error = "validation_error"
           /\ resp[p].reason = "No valid reviews found in bulk data"

\* an empty array and a string of blank lines were rejected
C8_Witness ==
  \E p \in Procs :
    /\ Returned(p)
    /\ resp[p].bulk_data.kind = "string"
    /\ Len(resp[p].bulk_data.elems) >= 1
    /\ IsEmptyPayload(resp[p].bulk_data)
    /\ resp[p].reason = "No valid reviews found in bulk data"

IsNotBlank(line) == line.tag # "blank"
BadLines(bulk_data) ==
  {i \in 1..Len(bulk_data.elems) : bulk_data.elems[i].tag = "bad"}
FirstBadLine(bulk_data) ==
  CHOOSE i \in BadLines(bulk_data) : \A j \in BadLines(bulk_data) : i <= j

\* C9: a JSON string payload is read as newline-delimited JSON: blank lines
\* are skipped and every other line is one ReviewInput, in line order; if a
\* line does not parse the call fails with a Validation error naming
\* line_<n>, n the 1-based number of the line in the string, and nothing is
\* appended.
C9_JsonlPayload ==
  \A p \in Procs :
    BulkDataOf(p).kind = "string" =>
      LET bulk_data == BulkDataOf(p)
          inputs == SelectSeq(bulk_data.elems, IsNotBlank)
      IN
      IF BadLines(bulk_data) # {}
      THEN /\ TokensOf(p) = {}
           /\ (Returned(p) /\ ~IoFailure(p)) =>
                /\ resp[p].status = 400
                /\ resp[p].error = "validation_error"
                /\ resp[p].field = "line"
                /\ resp[p].line = FirstBadLine(bulk_data)
      ELSE /\ \A i \in TokensOf(p) :
                /\ file[i].rec.id[2] \in 1..Len(inputs)
                /\ file[i].rec.data = inputs[file[i].rec.id[2]].data
           /\ Reported(p) =>
                /\ resp[p].total_processed = Len(inputs)
                /\ \A n \in 1..Len(resp[p].failed) :
                     resp[p].failed[n].data =
                       inputs[resp[p].failed[n].line_number].data

\* a string whose second line does not parse, after a blank first line
C9_Witness ==
  \E p \in Procs :
    /\ Returned(p)
    /\ resp[p].bulk_data = Payload("string", <<BlankLine, BadElem>>)
    /\ resp[p].field = "line"
    /\ resp[p].line = 2

\* the handlers whose records are in the file, in file order
Writers == [i \in 1..Len(file) |-> file[i].rec.id[1]]
AcquiredAt(p) == CHOOSE k \in 1..Len(acquired) : acquired[k] = p

C10_State ==
  /\ Cardinality(lock) <= 1
  /\ \A i \in 1..Len(file) :
       file[i].t # "NL" => \E k \in 1..Len(acquired) : acquired[k] = Writers[i]
  /\ \A i, j \in 1..Len(file) :
       (i < j /\ file[i].t # "NL" /\ file[j].t # "NL")
         => AcquiredAt(Writers[i]) <= AcquiredAt(Writers[j])

C10_Step ==
  \A p \in Procs : (file' # file /\ hs'[p] # hs[p]) => p \in lock

\* C10: at most one handler holds the lock at any time, every append to
\* the log is made by a handler holding the lock, and the records of the
\* log are in the order in which their writers acquired the lock.
C10_WritesOrderedByLock == [](C10_State) /\ [][C10_Step]_vars

\* a bulk upload of two records and a single insert both wrote
C10_Witness ==
  \E p, q \in Procs :
    /\ Reported(p)
    /\ resp[p].successful = 2
    /\ resp[q].kind = "create"
    /\ resp[q].status = 200
    /\ TokensOf(q) # {}

\* a response was sent: the handler neither is running nor panicked
Responded(p) == resp[p].status # 0

\* C11: a write handler that has acquired the lock eventually returns a
\* response: it does not end without one, and it does not run forever; and
\* from the state in which it returns on it does not hold the lock.
C11_LockReleasedOnExit ==
  /\ [](\A p \in Procs : Returned(p) => p \notin lock)
  /\ [](\A p \in Procs : (Returned(p) /\ resp[p].locked) => Responded(p))
  /\ \A p \in Procs : (p \in lock) ~> (Responded(p) /\ p \notin lock)

\* C12: whenever FileLock::acquire fails for a write request, whether the
\* open of the lock file or the lock call failed, the request is rejected
\* with status 503 and the error tag concurrency_error, and nothing of it
\* is in the log.
C12_AcquireFailureIsConcurrency ==
  \A p \in Procs :
    resp[p].status = 503 =>
      /\ resp[p].error = "concurrency_error"
      /\ TokensOf(p) = {}

\* a search that read the log: it answered with a ranking or with the
\* error of a line that did not parse
ReadTheLog(p) ==
  /\ resp[p].kind = "search"
  /\ resp[p].status = 200 \/ resp[p].error = "serialization_error"

\* C13: a reader running beside the writers never observes a torn record:
\* every non-blank line of the file content a search reads parses, so its
\* read_all never fails with a parse error.
C13_NoTornRead ==
  \A p \in Procs :
    ReadTheLog(p) =>
      /\ ReadLines(Lines(resp[p].seen), <<>>).ok
      /\ resp[p].status = 200

\* the records of handler w in the log
RecordsOf(w) == {file[i].rec : i \in TokensOf(w)}

\* C14: a search that begins after a successful write has returned (and so
\* released the lock) observes that write: what it reads contains all the
\* write wrote, and if it ranks a corpus, the corpus contains every record
\* of the write and is at least as long as the log was when the write ended.
C14_ReadAfterWrite ==
  \A p \in Procs :
    ReadTheLog(p) =>
      \A w \in resp[p].began_after :
        /\ \A i \in TokensOf(w) :
             i <= Len(resp[p].seen) /\ resp[p].seen[i] = file[i]
        /\ resp[p].status = 200 =>
             /\ \A rec \in RecordsOf(w) :
                  \E n \in 1..Len(resp[p].all_reviews) : resp[p].all_reviews[n] = rec
             /\ Len(resp[p].all_reviews) >=
                  resp[w].count_at_lock + Cardinality(RecordsOf(w))

\* a search that began after a bulk upload of two records ranked both
C14_Witness ==
  \E p, w \in Procs :
    /\ resp[p].kind = "search"
    /\ resp[p].status = 200
    /\ w \in resp[p].began_after
    /\ resp[w].kind = "bulk"
    /\ resp[w].successful = 2
    /\ Len(resp[p].all_reviews) = 2

\* what a reader finds at 0-based position i of the log content f
RecordAt(f, i) == GetReviewByIndex(TRUE, f, i)

C15_Step ==
  /\ \A i \in 0..(Len(Lines(file)) - 1) :
       RecordAt(file, i).tag = "some" => RecordAt(file', i) = RecordAt(file, i)
  /\ CountReviews(file_exists', file') >= CountReviews(file_exists, file)

\* C15: the log is append-only: in every step count() does not decrease
\* and every record of the log before the step is the same record, at the
\* same position, after it.
C15_AppendOnly == [][C15_Step]_vars

\* the number of records that the appends which returned Ok were given, for
\* the requests 1..n
RECURSIVE AppendedBy(_)
AppendedBy(n) ==
  IF n = 0 THEN 0
  ELSE AppendedBy(n - 1)
         + (IF resp[n].status # 200 THEN 0
            ELSE IF resp[n].kind = "create" THEN 1
            ELSE IF resp[n].kind = "bulk" THEN resp[n].successful
            ELSE 0)

\* every call of append_review and append_reviews so far has returned, and
\* returned Ok or wrote nothing
OnlySuccessfulAppends ==
  /\ \A p \in Procs : InFlight(p) => TokensOf(p) = {}
  /\ \A p \in Procs : resp[p].status # 200 => TokensOf(p) = {}

\* C16: after any sequence of successful appends on a log that started
\* missing, validate() reports is_valid with no errors, and total_lines,
\* valid_lines and count() all equal the number of records appended.
C16_ValidateAfterAppends ==
  OnlySuccessfulAppends =>
    LET v == ValidateFile(file_exists, file) IN
    /\ v.is_valid
    /\ v.errors = <<>>
    /\ v.total_lines = v.valid_lines
    /\ v.valid_lines = CountReviews(file_exists, file)
    /\ v.valid_lines = AppendedBy(NumRequests)

\* a bulk upload of two records and a single insert have both succeeded
C16_Witness ==
  /\ OnlySuccessfulAppends
  /\ AppendedBy(NumRequests) = 3
  /\ \E p \in Procs : resp[p].kind = "create" /\ resp[p].status = 200
  /\ ValidateFile(file_exists, file).total_lines = 3

\* the lists of at most MaxIndices positions, in any order, with
\* duplicates, up to one position past the end of the log
IndexLists == BSeq(0..Len(Lines(file)), MaxIndices)

\* C17: for every list of indices, get_many returns a list of the same
\* length whose j-th entry is the record at position indices[j], with
\* vector_index = indices[j], when indices[j] < count(), and absent
\* otherwise.
C17_GetMany ==
  \A indices \in IndexLists :
    LET r == GetReviewsByIndices(file_exists, file, indices) IN
    /\ r.ok
    /\ Len(r.results) = Len(indices)
    /\ \A j \in 1..Len(indices) :
         IF indices[j] < CountReviews(file_exists, file)
         THEN /\ r.results[j] = RecordAt(file, indices[j])
              /\ r.results[j].tag = "some"
              /\ r.results[j].rec.vector_index = indices[j]
         ELSE r.results[j] = None

\* C18: count() is the next available position: it is 0 for a missing file,
\* get(count()) is absent, get(i) is present for every i < count(), and
\* read_all() returns exactly get(0), ..., get(count() - 1) in that order.
C18_CountIsNextPosition ==
  LET count == CountReviews(file_exists, file)
      all_reviews == ReadAllReviews(file_exists, file)
  IN
  /\ ~file_exists => count = 0
  /\ GetReviewByIndex(file_exists, file, count) = None
  /\ \A i \in 0..(count - 1) : GetReviewByIndex(file_exists, file, i).tag = "some"
  /\ all_reviews.ok
  /\ Len(all_reviews.reviews) = count
  /\ \A i \in 0..(count - 1) :
       all_reviews.reviews[i + 1] = GetReviewByIndex(file_exists, file, i).rec

\* the number of code points of a string after trim()
TrimmedChars(s) == s.chars

\* what the specification accepts: lengths in code points after trimming
Acceptable(r) ==
  /\ TrimmedChars(r.title) >= 3 /\ TrimmedChars(r.title) <= 200
  /\ TrimmedChars(r.body) >= 10 /\ TrimmedChars(r.body) <= 2000
  /\ TrimmedChars(r.product_id) >= 1 /\ TrimmedChars(r.product_id) <= 100
  /\ r.rating >= 1 /\ r.rating <= 5

Validated(p) == resp[p].kind = "validate"

\* C19: validate accepts a review if and only if, in code points after
\* trimming, the title has 3 to 200 characters, the body 10 to 2000, the
\* product_id 1 to 100, and the rating is in 1..5; a title of 2 is rejected
\* with TooShort and a body of 2001 with TooLong.
C19_ValidateLimits ==
  \A p \in Procs :
    Validated(p) =>
      LET r == resp[p].review_data IN
      /\ (resp[p].variant = "Ok") <=> Acceptable(r)
      /\ (TrimmedChars(r.title) = 2 /\ resp[p].field = "title")
           => resp[p].variant = "TooShort"
      /\ (TrimmedChars(r.body) = 2001 /\ resp[p].field = "body")
           => resp[p].variant = "TooLong"

\* the rules of validate in their fixed order, each with the failure it
\* reports; the lengths are those validate measures
Rules(r) ==
  << [broken |-> TrimIsEmpty(r.title), variant |-> "MissingField", field |-> "title"],
     [broken |-> TrimIsEmpty(r.body), variant |-> "MissingField", field |-> "body"],
     [broken |-> TrimIsEmpty(r.product_id), variant |-> "MissingField", field |-> "product_id"],
     [broken |-> StrLen(r.title) < 3, variant |-> "TooShort", field |-> "title"],
     [broken |-> StrLen(r.title) > 200, variant |-> "TooLong", field |-> "title"],
     [broken |-> StrLen(r.body) < 10, variant |-> "TooShort", field |-> "body"],
     [broken |-> StrLen(r.body) > 2000, variant |-> "TooLong", field |-> "body"],
     [broken |-> StrLen(r.product_id) > 100, variant |-> "TooLong", field |-> "product_id"],
     [broken |-> r.rating < 1 \/ r.rating > 5, variant |-> "InvalidRating", field |-> "rating"] >>

Broken(r) == {n \in 1..Len(Rules(r)) : Rules(r)[n].broken}
FirstBroken(r) == CHOOSE n \in Broken(r) : \A m \in Broken(r) : n <= m

\* C20: validate is a function of its input that on failure names the
\* offending field: a missing title, body or product_id is reported for that
\* field, a rating outside 1..5 as InvalidRating, and when several rules are
\* broken the failure is that of the first in the order title-missing,
\* body-missing, product_id-missing, title-length, body-length,
\* product_id-length, rating.
C20_ValidateOrder ==
  \A p \in Procs :
    Validated(p) =>
      LET r == resp[p].review_data IN
      /\ resp[p].variant = Validate(r).variant
      /\ resp[p].field = Validate(r).field
      /\ (resp[p].variant = "Ok") <=> (Broken(r) = {})
      /\ Broken(r) # {} =>
           /\ resp[p].variant = Rules(r)[FirstBroken(r)].variant
           /\ resp[p].field = Rules(r)[FirstBroken(r)].field
      /\ resp[p].variant = "MissingField" => TrimIsEmpty(r[resp[p].field])
      /\ resp[p].variant = "InvalidRating" =>
           resp[p].field = "rating" /\ (r.rating < 1 \/ r.rating > 5)

\* a review with a whitespace-only body, a title that is too long and a
\* rating of 6 was reported for its body
C20_Witness ==
  \E p \in Procs :
    /\ Validated(p)
    /\ resp[p].review_data.body = Str(1, 0, 0)
    /\ resp[p].review_data.title = Ascii(201)
    /\ resp[p].review_data.rating = 6
    /\ resp[p].variant = "MissingField"
    /\ resp[p].field = "body"

Searched(p) == resp[p].kind = "search"

\* what the specification accepts: a query of 1 to 500 code points after
\* trimming, and a limit that is absent or in 1..100
AcceptableSearch(r) ==
  /\ TrimmedChars(r.query) >= 1 /\ TrimmedChars(r.query) <= 500
  /\ r.limit.some => (r.limit.value >= 1 /\ r.limit.value <= 100)

\* C21: SearchRequest::validate accepts a request if and only if the
\* trimmed query has 1 to 500 code points and the limit is absent or in
\* 1..100; limits 0 and 101 are rejected with InvalidValue naming limit, an
\* empty or whitespace-only query is rejected naming query, and an absent
\* limit is echoed as 10.
C21_SearchValidateLimits ==
  \A p \in Procs :
    Searched(p) =>
      LET r == resp[p].search_request IN
      /\ (resp[p].status # 400) <=> AcceptableSearch(r)
      /\ TrimIsEmpty(r.query) =>
           resp[p].status = 400 /\ resp[p].field = "query"
      /\ (AcceptableSearch(SearchRequest(r.query, NoLimit))
            /\ r.limit.some /\ r.limit.value \in {0, 101})
           => /\ resp[p].status = 400
              /\ resp[p].variant = "InvalidValue"
              /\ resp[p].field = "limit"
      /\ (resp[p].status = 200 /\ ~r.limit.some) => resp[p].limit = 10

\* the searches that were answered with a list of hits
Ranked(p) == Searched(p) /\ resp[p].status = 200

\* the score of record i of the log search p read, and its place in that log
ScoreOf(p, i) ==
  LET query_lower == ToLowercase(Chars(resp[p].search_request.query))
  IN CalculateTextSimilarity(query_lower, SplitWhitespace(query_lower),
                             resp[p].all_reviews[i])
PlaceOf(p, review) ==
  CHOOSE i \in 1..Len(resp[p].all_reviews) : resp[p].all_reviews[i] = review

\* the records search p may return, and the order it returns them in: by
\* decreasing score, and by place in the log among equal scores
Hits(p) == {i \in 1..Len(resp[p].all_reviews) : ScoreOf(p, i) > 0}
RanksBefore(p, i, j) ==
  \/ ScoreOf(p, i) > ScoreOf(p, j)
  \/ ScoreOf(p, i) = ScoreOf(p, j) /\ i < j

\* the places in the log of the hits search p returned
Returns(p) == {PlaceOf(p, resp[p].results[k].review) : k \in 1..Len(resp[p].results)}

\* C22: the list of hits has at most limit elements, is sorted by
\* non-increasing score with equal scores in log order, holds only records
\* of score > 0 and is exactly the first limit elements of that ordering of
\* all such records; total_results is its length.
C22_RankedPrefix ==
  \A p \in Procs :
    Ranked(p) =>
      LET results == resp[p].results
          place(k) == PlaceOf(p, results[k].review)
      IN /\ Len(results) <= resp[p].limit
         /\ \A k \in 1..Len(results) :
              /\ \E i \in Hits(p) : results[k].review = resp[p].all_reviews[i]
              /\ results[k].similarity_score = ScoreOf(p, place(k))
              /\ results[k].similarity_score > 0
         /\ \A k, l \in 1..Len(results) :
              k < l => /\ results[k].similarity_score >= results[l].similarity_score
                       /\ RanksBefore(p, place(k), place(l))
         /\ Len(results) = Min(resp[p].limit, Cardinality(Hits(p)))
         /\ \A i \in Hits(p) \ Returns(p) :
              \A j \in Returns(p) : RanksBefore(p, j, i)
         /\ resp[p].total_results = Len(results)

\* a search with limit 1 of a log with two hits of the same score
C22_Witness ==
  \E p \in Procs :
    /\ Ranked(p)
    /\ resp[p].limit = 1
    /\ Len(resp[p].results) = 1
    /\ \E i, j \in Hits(p) : i < j /\ ScoreOf(p, i) = ScoreOf(p, j)

\* the query as the scorer reads it, and what it finds of it in record i of
\* the log search p read
QueryLower(p) == ToLowercase(Chars(resp[p].search_request.query))
TitleLower(p, i) == ToLowercase(Chars(resp[p].all_reviews[i].data.title))
BodyLower(p, i) == ToLowercase(Chars(resp[p].all_reviews[i].data.body))
WordsIn(p, text) ==
  {k \in 1..Len(SplitWhitespace(QueryLower(p))) :
     Contains(text, SplitWhitespace(QueryLower(p))[k])}
TitleMatch(p, i) == Contains(TitleLower(p, i), QueryLower(p))
BodyOnlyMatch(p, i) ==
  /\ ~Contains(TitleLower(p, i), QueryLower(p))
  /\ WordsIn(p, TitleLower(p, i)) = {}
  /\ Contains(BodyLower(p, i), QueryLower(p)) \/ WordsIn(p, BodyLower(p, i)) # {}

\* the rank of record i of the log in the list search p returned
RankOf(p, i) ==
  CHOOSE k \in 1..Len(resp[p].results) :
    resp[p].results[k].review = resp[p].all_reviews[i]

\* C23: a review with the query in its title ranks before a review that
\* matches the query in its body only, whichever of the two is first in
\* the log and whatever their ratings.
C23_TitleMatchFirst ==
  \A p \in Procs :
    Ranked(p) =>
      \A i, j \in 1..Len(resp[p].all_reviews) :
        (TitleMatch(p, i) /\ BodyOnlyMatch(p, j) /\ j \in Returns(p))
          => i \in Returns(p) /\ RankOf(p, i) < RankOf(p, j)

CountToAppend == {"c_count", "c_lock", "c_append", "c_newline", "b_count", "b_append"}

\* C25: in every write operation the read of the count and the append of
\* the records happen inside one holding of the exclusive lock: a handler
\* that is about to read the count, or has read it and has not finished
\* its append, holds the lock.
C25_CountAndAppendUnderLock ==
  \A p \in Procs : hs[p].pc \in CountToAppend => p \in lock

\* title + " " + body of record i of the log search p read, lowercased
CombinedLower(p, i) == TitleLower(p, i) \o <<" ">> \o BodyLower(p, i)

\* the formula of the specification for record i and the query of search
\* p, in units of 1 / (20 * total_tokens), in which every term is a whole
\* number: 1.0 for the whole query, 0.8 or 0.5 for each token found, half
\* the share of tokens found, and a tenth of rating - 3
FormulaUnits(p) == 20 * Len(SplitWhitespace(QueryLower(p)))
Formula(p, i) ==
  LET total_tokens == Len(SplitWhitespace(QueryLower(p)))
      matched == WordsIn(p, CombinedLower(p, i))
      in_title == WordsIn(p, TitleLower(p, i))
      sum == (IF Contains(CombinedLower(p, i), QueryLower(p))
              THEN 20 * total_tokens ELSE 0)
             + 16 * total_tokens * Cardinality(matched \cap in_title)
             + 10 * total_tokens * Cardinality(matched \ in_title)
             + 10 * Cardinality(matched)
             + 2 * total_tokens * (resp[p].all_reviews[i].data.rating - 3)
  IN Max(Min(sum, FormulaUnits(p)), 0)

\* an f32 score equals a value of the formula when it is the value up to
\* the rounding of f32 arithmetic: they differ by less than 2^-19, while two
\* values of the formula differ by at least 1 / FormulaUnits
EqualsFormula(score, value, units) ==
  Abs(score - ((value * 2 ^ 20) \div units) * 2 ^ 7) < 2 ^ 8

\* C26: the score of every record for every query with a token is the
\* formula of the specification clamped to [0, 1], so every reported score
\* is in [0, 1].
C26_ScoreFormula ==
  \A p \in Procs :
    Ranked(p) =>
      /\ \A i \in 1..Len(resp[p].all_reviews) :
           /\ EqualsFormula(ScoreOf(p, i), Formula(p, i), FormulaUnits(p))
           /\ ScoreOf(p, i) >= 0 /\ ScoreOf(p, i) <= F32(1)
      /\ \A k \in 1..Len(resp[p].results) :
           /\ resp[p].results[k].similarity_score >= 0
           /\ resp[p].results[k].similarity_score <= F32(1)
           /\ EqualsFormula(resp[p].results[k].similarity_score,
                            Formula(p, PlaceOf(p, resp[p].results[k].review)),
                            FormulaUnits(p))

\* a hit with a word of a two-word query in its title and a score below 1
C26_Witness ==
  \E p \in Procs :
    /\ Ranked(p)
    /\ Len(SplitWhitespace(QueryLower(p))) = 2
    /\ \E k \in 1..Len(resp[p].results) :
         /\ resp[p].results[k].similarity_score < F32(1)
         /\ WordsIn(p, TitleLower(p, PlaceOf(p, resp[p].results[k].review))) # {}

\* record i of the log search p read holds neither the query nor a token
NoMatch(p, i) ==
  /\ ~Contains(CombinedLower(p, i), QueryLower(p))
  /\ WordsIn(p, CombinedLower(p, i)) = {}

\* C27: a review whose title and body contain neither the query nor any
\* of its tokens is never in the results, whatever its rating.
C27_NoMatchNotReturned ==
  \A p \in Procs :
    Ranked(p) =>
      \A i \in 1..Len(resp[p].all_reviews) :
        NoMatch(p, i) => i \notin Returns(p)

\* the parts of records request p has left in the log, in log order
WrittenBy(p) == SelectSeq(file, LAMBDA tok : tok.t # "NL" /\ tok.rec.id[1] = p)

\* the first k records of the batch of bulk insert p: the items that pass
\* validation, at the positions that follow the count read under the lock
BatchRecord(p, j) ==
  LET ok == Positions(ParsedList(p), 1, TRUE)
  IN ToMetadata(ParsedList(p)[ok[j]], resp[p].count_at_lock + j - 1, <<p, ok[j]>>)
RECURSIVE BatchPrefix(_, _)
BatchPrefix(p, k) ==
  IF k = 0 THEN <<>> ELSE BatchPrefix(p, k - 1) \o JsonLine(BatchRecord(p, k))

\* C28: a bulk insert whose append fails returns status 500 with a
\* FileOperation error and the lock released, and leaves in the log a prefix
\* of the batch's records in order: whole records, and no part of another.
C28_FailedBatchLeavesPrefix ==
  \A p \in Procs :
    (resp[p].kind = "bulk" /\ resp[p].status # 200 /\ TokensOf(p) # {}) =>
      /\ resp[p].status = 500
      /\ resp[p].error = "file_operation_error"
      /\ p \notin lock
      /\ \E k \in 0..Len(Positions(ParsedList(p), 1, TRUE)) :
           WrittenBy(p) = BatchPrefix(p, k)

\* a step of the search of request p
SearchStep(p) ==
  /\ hs[p].pc \in {"new", "s_read"}
  /\ hs'[p] # hs[p]
  /\ hs'[p].pc = "s_read" \/ resp'[p].kind = "search"

\* C29: a search never takes or waits for the lock and never changes the
\* log: it can start whoever holds the lock, and each of its steps leaves
\* the log and the lock as they are, whether the search succeeds or is
\* rejected.
C29_SearchIsLockFree ==
  /\ [](hs[1].pc = "new" =>
          \A search_request \in SearchRequests :
            ENABLED SearchStart(1, search_request))
  /\ [][\A p \in Procs :
          SearchStep(p) => UNCHANGED <<file, file_exists, lock, acquired>>]_vars

\* a search that was answered with the record a writer has just appended
\* and has not yet closed with its newline: the writer holds the lock
C29_Witness ==
  \E p, q \in Procs :
    /\ Ranked(p)
    /\ q \in lock
    /\ hs[q].pc = "c_newline"
    /\ resp[p].seen = file
    /\ resp[p].all_reviews # <<>>
    /\ resp[p].all_reviews[Len(resp[p].all_reviews)] = hs[q].review_metadata

\* C30: count(), get(i) and read_all() number the records of every log
\* file alike, blank lines or not: for every i < count(), get(i) is the
\* record read_all()[i], and get_many([i]) returns it too.
C30_SameNumbering ==
  \A p \in Procs :
    (resp[p].kind = "store" /\ resp[p].index < resp[p].count) =>
      /\ resp[p].count = Len(resp[p].all_reviews)
      /\ resp[p].got = Some(resp[p].all_reviews[resp[p].index + 1])
      /\ resp[p].got_many = <<Some(resp[p].all_reviews[resp[p].index + 1])>>

\* the input the record with identity id was made from: the review of a
\* single insert, or the item at that place of the list a bulk insert parsed
ReviewDataOf(p) == IF Returned(p) THEN resp[p].review_data ELSE hs[p].review_data
InputOf(id) ==
  IF BulkDataOf(id[1]) # NoPayload THEN ParsedList(id[1])[id[2]]
  ELSE ReviewDataOf(id[1])

\* C31: every record the single and bulk inserts write to the log comes
\* from an input that passed ReviewData::validate, with title, body,
\* product_id and rating copied unchanged: no record in the log has a
\* rating outside 1..5 or an empty title, body or product_id.
C31_OnlyValidatedRecords ==
  \A i \in 1..Len(file) :
    file[i].t # "NL" =>
      LET rec == file[i].rec IN
      /\ IsValid(InputOf(rec.id))
      /\ rec.data = InputOf(rec.id)
      /\ rec.data.rating >= 1 /\ rec.data.rating <= 5
      /\ ~TrimIsEmpty(rec.data.title)
      /\ ~TrimIsEmpty(rec.data.body)
      /\ ~TrimIsEmpty(rec.data.product_id)

\* a bulk insert of a list with a review that fails validation has written
\* its valid reviews, and a single insert of an invalid review was rejected
C31_Witness ==
  \E p, q \in Procs :
    /\ Reported(p)
    /\ Len(resp[p].failed) > 0
    /\ TokensOf(p) # {}
    /\ resp[q].kind = "create"
    /\ resp[q].status = 400
    /\ ~IsValid(resp[q].review_data)

\* C32: the write path cannot deadlock or starve a request: in every state
\* in which some handler has not returned some handler can take a step, no
\* handler ends without a response, and under strong fairness of lock
\* acquisition every write request eventually returns a response.
C32_NoDeadlockNoStarvation ==
  /\ []((\E p \in Procs : InFlight(p)) => ENABLED (\E q \in Procs : Step(q)))
  /\ [](\A p \in Procs : Returned(p) => Responded(p))
  /\ \A p \in Procs : InFlight(p) ~> Responded(p)

====
